---- MODULE Spec2Model ----
(***************************************************************************)
(* A model of the HTTP surface of app.py: the four request handlers        *)
(* (/schema_info, /query, /execute, /download) and the three components    *)
(* they call (get_table_schemas, generate_sql, execute_query).             *)
(*                                                                         *)
(* The database, the model service and the file system are the             *)
(* environment.  Each handler is one action; what the environment answers  *)
(* during the request (catalog rows, the model's answer, the step at which *)
(* a call raises) is an input of the action.                               *)
(*                                                                         *)
(* The script of the page that app.py serves is modelled as well: its two  *)
(* submit handlers, the error banner, the loading indicator and the        *)
(* history list, with what fetch settles with as the input.                *)
(***************************************************************************)
EXTENDS Integers, Sequences, FiniteSets, TLC

VARIABLES
    tbl,        \* the committed rows of table t in the database
    req,        \* the request handled last: endpoint and form fields
    env,        \* what the environment answered during that request
    resp,       \* the HTTP response to that request
    log,        \* the external calls of that request, in order
    conns,      \* connections opened by finished requests and never closed
    tmpdirs,    \* the directories made by tempfile.mkdtemp, oldest first
    jobs,       \* the /download requests in flight, each at its own line
    files,      \* the files those requests wrote: path, content and writer
    page,       \* the page in the browser: its fields, banner, indicator, history
    fetches,    \* the page's submissions: idle, or awaiting their fetch
    settled,    \* the submission that ended last and what its fetch gave
    posted      \* the number of requests the page has posted

vars == <<tbl, req, env, resp, log, conns, tmpdirs, jobs, files, page, fetches, settled, posted>>

(***************************************************************************)
(* Bounds of the model.                                                    *)
(***************************************************************************)
MaxCatalogRows == 3
MaxTableRows == 1
MaxLeaked == 1
MaxTmpDirs == 2
NumJobs == 2
NumFetches == 2
MaxPosted == 7
MaxPostedTogether == 3

(***************************************************************************)
(* Python values.  None, str and int are kept apart by a tag, so that      *)
(* "if error:" (truthiness) and jsonify's null are what Python makes them. *)
(***************************************************************************)
NoneV == [t |-> "None"]
PyStr(s) == [t |-> "str", v |-> s]
PyInt(n) == [t |-> "int", v |-> n]

\* Python's truth value of None or a str: None and "" are false.
Truthy(x) == x.t = "str" /\ x.v # ""

PG_DATABASE == "my_local_db"

(***************************************************************************)
(* Ordered dictionaries (Python dict keeps insertion order): a sequence of *)
(* <<key, value>> pairs with distinct keys.                                *)
(***************************************************************************)
DictKeys(d) == [i \in 1..Len(d) |-> d[i][1]]
DictHas(d, k) == \E i \in 1..Len(d) : d[i][1] = k
DictGet(d, k) == d[CHOOSE i \in 1..Len(d) : d[i][1] = k][2]
\* d[k] = v: an existing key keeps its place, a new key goes last.
DictSet(d, k, v) ==
    IF DictHas(d, k)
    THEN [i \in 1..Len(d) |-> IF d[i][1] = k THEN <<k, v>> ELSE d[i]]
    ELSE Append(d, <<k, v>>)

RECURSIVE Join(_, _)
\* sep.join(parts)
Join(parts, sep) ==
    IF parts = <<>> THEN ""
    ELSE IF Len(parts) = 1 THEN parts[1]
    ELSE parts[1] \o sep \o Join(Tail(parts), sep)

(***************************************************************************)
(* The catalog: rows (table_name, column_name, data_type) of               *)
(* information_schema.columns, in the order the database returns them.  A  *)
(* catalog names each (table, column) once.                                *)
(***************************************************************************)
CatalogRowSet ==
    { <<"customers", "id", "integer">>,
      <<"orders", "id", "integer">>,
      <<"customers", "name", "text">> }

RECURSIVE SeqsUpTo(_, _)
SeqsUpTo(S, n) ==
    IF n = 0 THEN { <<>> }
    ELSE LET shorter == SeqsUpTo(S, n - 1)
         IN shorter \cup { Append(s, x) : s \in shorter, x \in S }

NoRepeat(s) == \A i, j \in 1..Len(s) : s[i] = s[j] => i = j

Catalogs == { c \in SeqsUpTo(CatalogRowSet, MaxCatalogRows) : NoRepeat(c) }

(***************************************************************************)
(* get_table_schemas                                                       *)
(***************************************************************************)
\* f"{column} ({datatype})"
Descriptor(column, datatype) == column \o " (" \o datatype \o ")"

\* A variant that starts the table's list anew at every row.
AddColumnResetting(schema_info, row) ==
    DictSet(schema_info, row[1], << Descriptor(row[2], row[3]) >>)

\* One iteration of the loop over cursor.fetchall().
AddColumn(schema_info, row) ==
    LET table == row[1]
        withTable == IF DictHas(schema_info, table) THEN schema_info
                     ELSE DictSet(schema_info, table, <<>>)
    IN DictSet(withTable, table,
               Append(DictGet(withTable, table), Descriptor(row[2], row[3])))

RECURSIVE GroupRows(_, _)
\* schema_info after the loop has run over rows, starting from acc.
GroupRows(rows, acc) ==
    IF rows = <<>> THEN acc
    ELSE GroupRows(Tail(rows), AddColumn(acc, Head(rows)))

\* The steps of get_table_schemas at which a call can raise: "connect" is
\* psycopg2.connect, "execute" is the cursor's execute or fetchall, "row" i is
\* the loop's handling of row i, "close" is conn.close().
NoFault == [at |-> "none", i |-> 0]
SchemaFaults(rows) ==
    { [at |-> a, i |-> 0] : a \in {"none", "connect", "execute", "close"} }
    \cup { [at |-> "row", i |-> k] : k \in 1..Len(rows) }

Ev(op, arg) == [op |-> op, arg |-> arg]

CATALOG_SQL == "\n            SELECT table_name, column_name, data_type\n            FROM information_schema.columns\n            WHERE table_schema = 'public'\n        "

\* The local schema_info at the moment get_table_schemas leaves its try block.
SchemaLocal(rows, fault) ==
    IF fault.at \in {"connect", "execute"} THEN <<>>
    ELSE IF fault.at = "row" THEN GroupRows(SubSeq(rows, 1, fault.i - 1), <<>>)
    ELSE GroupRows(rows, <<>>)

\* A variant that returns the rows grouped so far.
SchemaOnErrorPartial(rows, fault) == SchemaLocal(rows, fault)
\* What the except clause of get_table_schemas returns.
SchemaOnError(rows, fault) == <<>>

\* get_table_schemas(): the mapping returned, the calls made on the database
\* and the number of connections left open.  No exception leaves it.
get_table_schemas(rows, fault) ==
    [ schema |-> IF fault.at = "none" THEN GroupRows(rows, <<>>)
                 ELSE SchemaOnError(rows, fault),
      calls  |-> << Ev("connect", "") >>
                 \o (IF fault.at = "connect" THEN <<>>
                     ELSE << Ev("sql", CATALOG_SQL) >>)
                 \o (IF fault.at \in {"none", "close"}
                     THEN << Ev("close", "") >> ELSE <<>>),
      leaked |-> IF fault.at \in {"none", "connect"} THEN 0 ELSE 1 ]

(***************************************************************************)
(* generate_sql                                                            *)
(***************************************************************************)
\* f"Table {table}: {', '.join(columns)}" for each item, joined by newlines.
SchemaText(schema_info) ==
    Join([i \in 1..Len(schema_info) |->
             "Table " \o schema_info[i][1] \o ": " \o Join(schema_info[i][2], ", ")],
         "\n")

PROMPT_HEAD == "\n            Based on the following database schema:\n            "
PROMPT_MID == "\n            Convert this natural language query into an SQL query for a PostgreSQL database: "
PROMPT_TAIL == "\n            Return as plaintext, query only, with no markdown formatting.\n            "

\* The f-string passed as contents.
Prompt(schema_text, user_query) ==
    PROMPT_HEAD \o schema_text \o PROMPT_MID \o user_query \o PROMPT_TAIL

\* What client.models.generate_content does: it raises an exception with
\* message msg, or returns a response whose .text is a str or None.
Raises(m) == [kind |-> "raise", msg |-> m, text |-> NoneV]
Returns(t) == [kind |-> "ok", msg |-> "", text |-> t]
ExcMessages == { "", "429 quota exceeded" }
ModelTexts == { PyStr("SELECT 1 AS x"), PyStr(""), NoneV }
ModelOutcomes == { Raises(m) : m \in ExcMessages } \cup { Returns(t) : t \in ModelTexts }

\* A variant that passes str(e) on without the prefix.
GenerateErrorBare(e) == e
\* error_message of generate_sql's except clause.
GenerateError(e) == "Error generating SQL: " \o e

\* A variant that calls the model a second time when the first call raises.
generate_sql_retrying(user_query, rows, fault, outcome) ==
    LET g == get_table_schemas(rows, fault)
        prompt == Prompt(SchemaText(g.schema), user_query)
    IN [ sql    |-> IF outcome.kind = "ok" THEN outcome.text ELSE NoneV,
         error  |-> IF outcome.kind = "ok" THEN NoneV
                    ELSE PyStr(GenerateError(outcome.msg)),
         calls  |-> g.calls \o << Ev("model", prompt) >>
                    \o (IF outcome.kind = "ok" THEN <<>> ELSE << Ev("model", prompt) >>),
         leaked |-> g.leaked ]

\* A variant that gives up without calling the model when it has no schema.
generate_sql_needing_schema(user_query, rows, fault, outcome) ==
    LET g == get_table_schemas(rows, fault)
        prompt == Prompt(SchemaText(g.schema), user_query)
    IN IF g.schema = <<>>
       THEN [ sql |-> NoneV, error |-> PyStr(GenerateError("no schema available")),
              calls |-> g.calls, leaked |-> g.leaked ]
       ELSE [ sql    |-> IF outcome.kind = "ok" THEN outcome.text ELSE NoneV,
              error  |-> IF outcome.kind = "ok" THEN NoneV
                         ELSE PyStr(GenerateError(outcome.msg)),
              calls  |-> g.calls \o << Ev("model", prompt) >>,
              leaked |-> g.leaked ]

\* generate_sql(user_query): the pair returned, the calls made and the
\* connections left open.
generate_sql(user_query, rows, fault, outcome) ==
    LET g == get_table_schemas(rows, fault)
        prompt == Prompt(SchemaText(g.schema), user_query)
    IN [ sql    |-> IF outcome.kind = "ok" THEN outcome.text ELSE NoneV,
         error  |-> IF outcome.kind = "ok" THEN NoneV
                    ELSE PyStr(GenerateError(outcome.msg)),
         calls  |-> g.calls \o << Ev("model", prompt) >>,
         leaked |-> g.leaked ]

(***************************************************************************)
(* Responses.  jsonify gives a 200 JSON response; an exception that leaves  *)
(* a handler becomes Flask's 500 page; a missing form field                *)
(* (request.form[...] raising BadRequestKeyError) becomes Flask's 400 page. *)
(***************************************************************************)
jsonify(d) == [status |-> 200, kind |-> "json", body |-> d]
Unhandled(m) == [status |-> 500, kind |-> "unhandled", body |-> [exception |-> m]]
BadRequest(field) == [status |-> 400, kind |-> "bad_request", body |-> [missing |-> field]]
NoResponse == [status |-> 0, kind |-> "none", body |-> [none |-> ""]]

\* What the environment answered during a request: the catalog rows and the
\* failing step of the schema fetch, the model's answer, the failing step of
\* execute_query and of the export.
Env(rows, sfault, outcome, efault, xfault) ==
    [rows |-> rows, sfault |-> sfault, outcome |-> outcome,
     efault |-> efault, xfault |-> xfault]
NoEnv == Env(<<>>, NoFault, Returns(NoneV), "none", "none")

\* A form is a function from field names to texts.
Has(form, field) == field \in DOMAIN form

\* The handler of POST /query; the reply and what the request did.
query(form, rows, fault, outcome) ==
    IF ~Has(form, "user_input")
    THEN [resp |-> BadRequest("user_input"), calls |-> <<>>, leaked |-> 0]
    ELSE LET g == generate_sql(form["user_input"], rows, fault, outcome)
         IN [ resp   |-> IF Truthy(g.error) THEN jsonify([error |-> g.error])
                         ELSE jsonify([sql_query |-> g.sql]),
              calls  |-> g.calls,
              leaked |-> g.leaked ]

\* A variant that reports an empty schema as an error.
schema_info_error_when_empty(rows, fault) ==
    LET g == get_table_schemas(rows, fault)
        tables == [i \in 1..Len(g.schema) |->
                      [name |-> g.schema[i][1], columns |-> g.schema[i][2]]]
    IN [ resp   |-> IF g.schema = <<>>
                    THEN jsonify([error |-> PyStr("Error fetching schema")])
                    ELSE jsonify([database |-> PG_DATABASE, tables |-> tables]),
         calls  |-> g.calls,
         leaked |-> g.leaked ]

\* The handler of GET /schema_info.
schema_info(rows, fault) ==
    LET g == get_table_schemas(rows, fault)
        tables == [i \in 1..Len(g.schema) |->
                      [name |-> g.schema[i][1], columns |-> g.schema[i][2]]]
    IN [ resp   |-> jsonify([database |-> PG_DATABASE, tables |-> tables]),
         calls  |-> g.calls,
         leaked |-> g.leaked ]

(***************************************************************************)
(* The database as execute_query sees it: table t(a, b) and what a         *)
(* statement gives when run on it.                                         *)
(***************************************************************************)
TableRowSet == { << PyInt(1), NoneV >>, << PyInt(2), PyStr("s") >> }
TableStates == SeqsUpTo(TableRowSet, MaxTableRows)

SELECT_ONE == "SELECT 1 AS x"
SELECT_T == "SELECT a, b FROM t"
SELECT_DUP == "SELECT a, b AS a FROM t"
SELEKT == "SELEKT 1"
INSERT_T == "INSERT INTO t VALUES (1, NULL)"
SELECT_PADDED == "  SELECT 1 AS x ;\n"
SqlTexts == { SELECT_ONE, SELECT_T, SELECT_DUP, SELEKT, INSERT_T, SELECT_PADDED }

\* Statements that change table t: one that returns the row it inserts, and
\* one that ends the transaction itself.
INSERT_RETURNING == "INSERT INTO t VALUES (2, 's') RETURNING a, b"
INSERT_COMMIT == "INSERT INTO t VALUES (2, 's'); COMMIT; SELECT 1 AS x"
MutatingTexts == { INSERT_T, INSERT_RETURNING, INSERT_COMMIT }

ResultSet(columns, rows) == [kind |-> "rows", columns |-> columns, rows |-> rows, msg |-> ""]
DbError(m) == [kind |-> "error", columns |-> <<>>, rows |-> <<>>, msg |-> m]
NoResultSet == [kind |-> "none", columns |-> <<>>, rows |-> <<>>, msg |-> ""]

\* What the cursor holds after cursor.execute(sql) on a database whose
\* table t has the rows t_rows.
DbRun(sql, t_rows) ==
    IF sql \in { SELECT_ONE, SELECT_PADDED } THEN ResultSet(<< "x" >>, << << PyInt(1) >> >>)
    ELSE IF sql = SELECT_T THEN ResultSet(<< "a", "b" >>, t_rows)
    ELSE IF sql = SELECT_DUP THEN ResultSet(<< "a", "a" >>, t_rows)
    ELSE IF sql = INSERT_T THEN NoResultSet
    ELSE IF sql = INSERT_RETURNING
    THEN ResultSet(<< "a", "b" >>, << << PyInt(2), PyStr("s") >> >>)
    ELSE IF sql = INSERT_COMMIT THEN ResultSet(<< "x" >>, << << PyInt(1) >> >>)
    ELSE DbError("syntax error at or near \"SELEKT\"")

\* The rows of t inside the transaction psycopg2 opened, after sql has run.
DbPending(sql, t_rows) ==
    IF sql = INSERT_T THEN Append(t_rows, << PyInt(1), NoneV >>)
    ELSE IF sql \in { INSERT_RETURNING, INSERT_COMMIT }
    THEN Append(t_rows, << PyInt(2), PyStr("s") >>)
    ELSE t_rows

\* A variant in which the connection commits every statement.
DbCommittedAutocommit(sql, t_rows) == DbPending(sql, t_rows)

\* The committed rows of t once the connection that ran sql is gone.  The
\* client never calls commit(), so the transaction is rolled back, unless
\* the statement text committed it.
DbCommitted(sql, t_rows) ==
    IF sql = INSERT_COMMIT THEN DbPending(sql, t_rows) ELSE t_rows

(***************************************************************************)
(* pandas                                                                  *)
(***************************************************************************)
\* A DataFrame: its column labels and its rows of values.
DataFrame(columns, rows) == [columns |-> columns, rows |-> rows]

RECURSIVE ZipDict(_, _, _)
\* dict(zip(keys, values)) appended to acc: a repeated key keeps its first
\* place and takes the last value.
ZipDict(keys, values, acc) ==
    IF keys = <<>> THEN acc
    ELSE ZipDict(Tail(keys), Tail(values), DictSet(acc, Head(keys), Head(values)))

\* df.to_dict('records')
to_dict_records(df) ==
    [i \in 1..Len(df.rows) |-> ZipDict(df.columns, df.rows[i], <<>>)]

\* pd.DataFrame(records) for a list of dicts: the columns are the keys of the
\* records in order of first appearance; an empty list gives no columns.
RECURSIVE RecordKeys(_, _)
RecordKeys(records, acc) ==
    IF records = <<>> THEN acc
    ELSE LET ks == DictKeys(Head(records))
             fresh == SelectSeq(ks, LAMBDA k : \A j \in 1..Len(acc) : acc[j] # k)
         IN RecordKeys(Tail(records), acc \o fresh)

DataFrameFromRecords(records) ==
    LET columns == RecordKeys(records, <<>>)
    IN DataFrame(columns,
                 [i \in 1..Len(records) |->
                     [j \in 1..Len(columns) |->
                         IF DictHas(records[i], columns[j])
                         THEN DictGet(records[i], columns[j]) ELSE NoneV]])

\* The text of a cell in a CSV file: a missing value gives the empty text.
CsvCell(v) ==
    IF v.t = "None" THEN "" ELSE IF v.t = "int" THEN ToString(v.v) ELSE v.v

\* df.to_csv(path, index=False), as the table a CSV reader gets back from the
\* file: the header line and one line of cells per row.
to_csv(df) ==
    [ format |-> "csv",
      header |-> df.columns,
      lines  |-> [i \in 1..Len(df.rows) |->
                     [j \in 1..Len(df.rows[i]) |-> CsvCell(df.rows[i][j])]] ]

\* df.to_excel(path, index=False): one sheet, a header row and the rows.
to_excel(df) ==
    [ format |-> "xlsx",
      header |-> df.columns,
      lines  |-> [i \in 1..Len(df.rows) |->
                     [j \in 1..Len(df.rows[i]) |-> CsvCell(df.rows[i][j])]] ]

(***************************************************************************)
(* execute_query                                                           *)
(***************************************************************************)
ExecFaults == { "none", "connect", "query", "close" }

\* str(e) of the exception execute_query catches, if any: "" when none is
\* raised.
ExecException(sql, t_rows, fault) ==
    LET r == DbRun(sql, t_rows)
    IN IF fault = "connect" THEN "connection refused"
       ELSE IF fault = "query" THEN "server closed the connection unexpectedly"
       ELSE IF r.kind = "error" THEN r.msg
       ELSE IF r.kind = "none" THEN "'NoneType' object is not iterable"
       ELSE IF fault = "close" THEN "connection already closed"
       ELSE ""

\* A variant that takes a statement without a result set for an empty result.
ExecRaisesOnErrorOnly(sql, t_rows, fault) ==
    fault # "none" \/ DbRun(sql, t_rows).kind = "error"

\* execute_query leaves its try block by an exception.
ExecRaises(sql, t_rows, fault) ==
    fault # "none" \/ DbRun(sql, t_rows).kind # "rows"

\* A variant whose error message is str(e) alone.
ExecuteErrorBare(e) == e

\* error_message of execute_query's except clause.
ExecuteError(e) == "Error executing query: " \o e

\* A variant that takes the column names from the first record.
ResultsOfFirstRecordKeys(df) ==
    [columns |-> IF df.rows = <<>> THEN <<>> ELSE DictKeys(to_dict_records(df)[1]),
     data |-> to_dict_records(df)]

\* The dict execute_query builds from the DataFrame.
ResultsOf(df) == [columns |-> df.columns, data |-> to_dict_records(df)]

\* A variant that sends the database nothing but SELECT statements.
execute_query_select_only(sql_query, t_rows, fault) ==
    LET r == DbRun(sql_query, t_rows)
        raises == ExecRaises(sql_query, t_rows, fault)
        closes == r.kind = "rows" /\ fault \in {"none", "close"}
    IN IF sql_query \in { INSERT_T, SELEKT }
       THEN [ results |-> NoneV,
              error   |-> PyStr(ExecuteError("only SELECT statements are allowed")),
              calls   |-> <<>>, leaked |-> 0, db |-> t_rows ]
       ELSE [ results |-> IF raises THEN NoneV
                          ELSE ResultsOf(DataFrame(r.columns, r.rows)),
              error   |-> IF raises
                          THEN PyStr(ExecuteError(ExecException(sql_query, t_rows, fault)))
                          ELSE NoneV,
              calls   |-> << Ev("connect", "") >>
                          \o (IF fault = "connect" THEN <<>> ELSE << Ev("sql", sql_query) >>)
                          \o (IF closes THEN << Ev("close", "") >> ELSE <<>>),
              leaked  |-> IF fault = "connect" \/ ~raises THEN 0 ELSE 1,
              db      |-> IF fault \in {"connect", "query"} THEN t_rows
                          ELSE DbCommitted(sql_query, t_rows) ]

\* execute_query(sql_query): the pair returned, the calls made, the
\* connections left open and the table afterwards.
execute_query(sql_query, t_rows, fault) ==
    LET r == DbRun(sql_query, t_rows)
        raises == ExecRaises(sql_query, t_rows, fault)
        closes == r.kind = "rows" /\ fault \in {"none", "close"}
    IN [ results |-> IF raises THEN NoneV
                     ELSE ResultsOf(DataFrame(r.columns, r.rows)),
         error   |-> IF raises
                     THEN PyStr(ExecuteError(ExecException(sql_query, t_rows, fault)))
                     ELSE NoneV,
         calls   |-> << Ev("connect", "") >>
                     \o (IF fault = "connect" THEN <<>> ELSE << Ev("sql", sql_query) >>)
                     \o (IF closes THEN << Ev("close", "") >> ELSE <<>>),
         leaked  |-> IF fault = "connect" \/ ~raises THEN 0 ELSE 1,
         db      |-> IF fault \in {"connect", "query"} THEN t_rows
                     ELSE DbCommitted(sql_query, t_rows) ]

\* The handler of POST /execute.
execute(form, t_rows, fault) ==
    IF ~Has(form, "sql_query")
    THEN [resp |-> BadRequest("sql_query"), calls |-> <<>>, leaked |-> 0, db |-> t_rows]
    ELSE LET e == execute_query(form["sql_query"], t_rows, fault)
         IN [ resp   |-> IF Truthy(e.error) THEN jsonify([error |-> e.error])
                         ELSE jsonify([results |-> e.results]),
              calls  |-> e.calls,
              leaked |-> e.leaked,
              db     |-> e.db ]

(***************************************************************************)
(* download                                                                *)
(***************************************************************************)
ExportFaults == { "none", "mkdtemp", "write", "send" }

CSV_MIME == "text/csv"
XLSX_MIME == "application/vnd.openxmlformats-officedocument.spreadsheetml.sheet"

\* A variant that compares file_type without regard to case.
ExportKindAnyCase(file_type, df) ==
    IF file_type \in {"csv", "CSV"}
    THEN [filename |-> "query_results.csv", mimetype |-> CSV_MIME, content |-> to_csv(df)]
    ELSE [filename |-> "query_results.xlsx", mimetype |-> XLSX_MIME, content |-> to_excel(df)]
\* The branch on file_type: filename, MIME type and writer of the export.
ExportKind(file_type, df) ==
    IF file_type = "csv"
    THEN [filename |-> "query_results.csv", mimetype |-> CSV_MIME, content |-> to_csv(df)]
    ELSE [filename |-> "query_results.xlsx", mimetype |-> XLSX_MIME, content |-> to_excel(df)]

\* A variant that hands every caller the same directory.
mkdtemp_shared(ndirs) == "/tmp/export"

\* tempfile.mkdtemp(): a directory that did not exist, named after the number
\* of directories made before it.
mkdtemp(ndirs) == "/tmp/tmp" \o ToString(ndirs + 1)

\* A variant that names the attachment after the whole path of the file.
send_file_named_by_path(file_path, mimetype, download_name, content) ==
    [ status |-> 200, kind |-> "file",
      body |-> [path |-> file_path, mimetype |-> mimetype,
                filename |-> file_path, content |-> content] ]

\* send_file(file_path, mimetype=..., as_attachment=True, download_name=...)
send_file(file_path, mimetype, download_name, content) ==
    [ status |-> 200, kind |-> "file",
      body |-> [path |-> file_path, mimetype |-> mimetype,
                filename |-> download_name, content |-> content] ]

\* The DataFrame download() serializes.
ExportFrame(results) == DataFrameFromRecords(results.data)

\* What an exception in the export part of download() does: nothing catches it.
ExportFailure(m) == Unhandled(m)

\* Lines 135-152 of download(): what follows a successful execute_query, for
\* the file_type read from the form; e is what execute_query returned.
export_results(file_type, e, xfault, ndirs) ==
    LET df == ExportFrame(e.results)
        temp_dir == mkdtemp(ndirs)
        x == ExportKind(file_type, df)
        file_path == temp_dir \o "/" \o x.filename
    IN IF xfault = "mkdtemp"
       THEN [resp |-> ExportFailure("No space left on device"),
             calls |-> e.calls \o << Ev("mkdtemp", "") >>,
             leaked |-> e.leaked, dirs |-> <<>>, db |-> e.db]
       ELSE IF xfault = "write"
       THEN [resp |-> ExportFailure("No space left on device"),
             calls |-> e.calls \o << Ev("mkdtemp", temp_dir), Ev("write", file_path) >>,
             leaked |-> e.leaked,
             dirs |-> << temp_dir >>, db |-> e.db]
       ELSE IF xfault = "send"
       THEN [resp |-> ExportFailure("send_file failed"),
             calls |-> e.calls \o << Ev("mkdtemp", temp_dir), Ev("write", file_path),
                                    Ev("send", file_path) >>,
             leaked |-> e.leaked,
             dirs |-> << temp_dir >>, db |-> e.db]
       ELSE [resp |-> send_file(file_path, x.mimetype, x.filename, x.content),
             calls |-> e.calls \o << Ev("mkdtemp", temp_dir), Ev("write", file_path),
                                    Ev("send", file_path) >>,
             leaked |-> e.leaked,
             dirs |-> << temp_dir >>, db |-> e.db]

\* A variant of download that removes its directory once the file is sent.
download_cleaning_up(form, t_rows, fault, xfault, ndirs) ==
    IF ~Has(form, "sql_query")
    THEN [resp |-> BadRequest("sql_query"), calls |-> <<>>, leaked |-> 0, dirs |-> <<>>,
          db |-> t_rows]
    ELSE IF ~Has(form, "file_type")
    THEN [resp |-> BadRequest("file_type"), calls |-> <<>>, leaked |-> 0, dirs |-> <<>>,
          db |-> t_rows]
    ELSE
    LET e == execute_query(form["sql_query"], t_rows, fault)
    IN IF Truthy(e.error)
       THEN [resp |-> jsonify([error |-> e.error]), calls |-> e.calls,
             leaked |-> e.leaked, dirs |-> <<>>, db |-> e.db]
       ELSE [export_results(form["file_type"], e, xfault, ndirs) EXCEPT !.dirs = <<>>]

\* A variant of download that makes its directory before it runs the query.
download_making_dir_first(form, t_rows, fault, xfault, ndirs) ==
    IF ~Has(form, "sql_query")
    THEN [resp |-> BadRequest("sql_query"), calls |-> <<>>, leaked |-> 0, dirs |-> <<>>,
          db |-> t_rows]
    ELSE IF ~Has(form, "file_type")
    THEN [resp |-> BadRequest("file_type"), calls |-> <<>>, leaked |-> 0, dirs |-> <<>>,
          db |-> t_rows]
    ELSE
    LET e == execute_query(form["sql_query"], t_rows, fault)
    IN IF Truthy(e.error)
       THEN [resp |-> jsonify([error |-> e.error]),
             calls |-> << Ev("mkdtemp", mkdtemp(ndirs)) >> \o e.calls,
             leaked |-> e.leaked, dirs |-> << mkdtemp(ndirs) >>, db |-> e.db]
       ELSE export_results(form["file_type"], e, xfault, ndirs)

\* A variant of download that reads file_type only where it is first used,
\* after the query has run and the directory has been made.
download_reading_file_type_late(form, t_rows, fault, xfault, ndirs) ==
    IF ~Has(form, "sql_query")
    THEN [resp |-> BadRequest("sql_query"), calls |-> <<>>, leaked |-> 0, dirs |-> <<>>,
          db |-> t_rows]
    ELSE
    LET e == execute_query(form["sql_query"], t_rows, fault)
    IN IF Truthy(e.error)
       THEN [resp |-> jsonify([error |-> e.error]), calls |-> e.calls,
             leaked |-> e.leaked, dirs |-> <<>>, db |-> e.db]
       ELSE IF ~Has(form, "file_type")
       THEN [resp |-> BadRequest("file_type"),
             calls |-> e.calls \o << Ev("mkdtemp", mkdtemp(ndirs)) >>,
             leaked |-> e.leaked, dirs |-> << mkdtemp(ndirs) >>, db |-> e.db]
       ELSE export_results(form["file_type"], e, xfault, ndirs)

\* The handler of POST /download; ndirs is the number of temporary
\* directories made so far.  Both form fields are read before anything else.
download(form, t_rows, fault, xfault, ndirs) ==
    IF ~Has(form, "sql_query")
    THEN [resp |-> BadRequest("sql_query"), calls |-> <<>>, leaked |-> 0, dirs |-> <<>>,
          db |-> t_rows]
    ELSE IF ~Has(form, "file_type")
    THEN [resp |-> BadRequest("file_type"), calls |-> <<>>, leaked |-> 0, dirs |-> <<>>,
          db |-> t_rows]
    ELSE
    LET e == execute_query(form["sql_query"], t_rows, fault)
    IN IF Truthy(e.error)
       THEN [resp |-> jsonify([error |-> e.error]), calls |-> e.calls,
             leaked |-> e.leaked, dirs |-> <<>>, db |-> e.db]
       ELSE export_results(form["file_type"], e, xfault, ndirs)

(***************************************************************************)
(* The page: the script of the HTML page.  It keeps the question box, the  *)
(* hidden SQL field, the error banner, the loading indicator and the       *)
(* history list; what fetch gives back is its input.                       *)
(***************************************************************************)
BLANK == "   "
PLAIN_QUESTION == "list users"
MARKUP_QUESTION == "<div class=\"history-item\"></div>"
Questions == { PLAIN_QUESTION, MARKUP_QUESTION }
PADDED_ANSWER == "SELECT 1 AS x\n"

\* String.prototype.trim on the texts of the model.
trim(s) ==
    IF s = BLANK THEN ""
    ELSE IF s = PADDED_ANSWER THEN SELECT_ONE
    ELSE s

truncateText(text, maxLength) ==
    IF Len(text) > maxLength THEN SubSeq(text, 1, maxLength) \o "..." ELSE text

\* The page as the HTML gives it: the banner, the indicator and both result
\* sections hidden, the history holding its placeholder and no item.
InitialPage ==
    [ userInput     |-> "",
      sqlQueryInput |-> "",
      sqlShown      |-> FALSE,
      resultsShown  |-> FALSE,
      errorShown    |-> FALSE,
      errorText     |-> "",
      loading       |-> FALSE,
      placeholder   |-> TRUE,
      history       |-> <<>> ]

showError(pg, message) == [pg EXCEPT !.errorText = message, !.errorShown = TRUE]
hideError(pg) == [pg EXCEPT !.errorShown = FALSE]
showLoading(pg) == [pg EXCEPT !.loading = TRUE]
hideLoading(pg) == [pg EXCEPT !.loading = FALSE]

displaySqlQuery(pg, sqlQuery) ==
    [pg EXCEPT !.sqlQueryInput = trim(sqlQuery),
               !.sqlShown = TRUE,
               !.resultsShown = FALSE]

\* A value a script finds absent: a missing property.
Undefined == [t |-> "undefined"]
JsGet(d, k) == IF k \in DOMAIN d THEN d[k] ELSE Undefined

\* !results || !results.columns || !results.data is false: an array, empty
\* or not, is truthy.
Displayable(results) == Has(results, "columns") /\ Has(results, "data")

INVALID_RESULTS == "Invalid results format"

displayQueryResults(pg, results) ==
    IF ~Displayable(results) THEN showError(pg, INVALID_RESULTS)
    ELSE [pg EXCEPT !.resultsShown = TRUE]

\* A history item: its dataset.query and dataset.sql.
Item(question, sqlQuery) == [query |-> question, sql |-> sqlQuery]

\* The elements of class history-item that the item's innerHTML makes: the
\* two texts go into the markup as they are.
NestedItems(item) ==
    (IF truncateText(item.query, 40) = MARKUP_QUESTION THEN 1 ELSE 0)
    + (IF truncateText(item.sql, 60) = MARKUP_QUESTION THEN 1 ELSE 0)

\* queryHistory.querySelectorAll('.history-item'), in document order: each
\* item of the list from position i on, followed by the elements inside it.
RECURSIVE HistoryItems(_, _)
HistoryItems(history, i) ==
    IF i > Len(history) THEN <<>>
    ELSE << [at |-> i, child |-> TRUE] >>
         \o [k \in 1..NestedItems(history[i]) |-> [at |-> i, child |-> FALSE]]
         \o HistoryItems(history, i + 1)

NOT_A_CHILD == "Failed to execute 'removeChild' on 'Node': The node to be removed is not a child of this node."

\* saveToHistory(question, sqlQuery): the page afterwards and the exception
\* that leaves the function, if any.  The placeholder goes, the item is put
\* first, and when the list then holds more than 5 elements of class
\* history-item the last of them is removed, which raises when that element
\* is not an item of the list but lies inside one.
saveToHistory(pg, question, sqlQuery) ==
    LET added == << Item(question, sqlQuery) >> \o pg.history
        historyItems == HistoryItems(added, 1)
        last == historyItems[Len(historyItems)]
    IN IF Len(historyItems) > 5 /\ ~last.child
       THEN [page |-> [pg EXCEPT !.placeholder = FALSE, !.history = added],
             threw |-> TRUE, msg |-> NOT_A_CHILD]
       ELSE [page |-> [pg EXCEPT !.placeholder = FALSE,
                                 !.history = IF Len(historyItems) > 5
                                             THEN SubSeq(added, 1, Len(added) - 1)
                                             ELSE added],
             threw |-> FALSE, msg |-> ""]

\* What a fetch settles with: the promise is rejected (no connection), or it
\* gives a response whose ok is true for a status from 200 to 299.
Rejected(m) == [kind |-> "rejected", ok |-> FALSE, body |-> [none |-> ""], msg |-> m]
Responded(r) == [kind |-> "response", ok |-> r.status \in 200..299, body |-> r.body, msg |-> ""]
Unsent == [kind |-> "unsent", ok |-> FALSE, body |-> [none |-> ""], msg |-> ""]
FAILED_TO_FETCH == "Failed to fetch"
TRIM_OF_NULL == "Cannot read properties of null (reading 'trim')"

\* data.error of a parsed body, as the condition of an if.
HasError(body) == Has(body, "error") /\ Truthy(body.error)

\* The query form's handler from the point where fetch settles with f.
queryResponded(pg, f) ==
    LET caught ==
            IF f.kind = "rejected" THEN showError(pg, f.msg)
            ELSE IF ~f.ok THEN showError(pg, "Failed to generate SQL query")
            ELSE IF HasError(f.body) THEN showError(pg, f.body.error.v)
            ELSE IF JsGet(f.body, "sql_query").t # "str" THEN showError(pg, TRIM_OF_NULL)
            ELSE hideError(displaySqlQuery(pg, f.body.sql_query.v))
    IN hideLoading(caught)

\* A variant that hides the indicator at the end of the try block.
executeResponded_hiding_in_try(pg, f) ==
    IF f.kind = "rejected" THEN showError(pg, f.msg)
    ELSE IF ~f.ok THEN showError(pg, "Failed to execute query")
    ELSE IF HasError(f.body) THEN hideLoading(showError(pg, f.body.error.v))
    ELSE LET saved == saveToHistory(
                          hideError(displayQueryResults(pg, JsGet(f.body, "results"))),
                          pg.userInput, pg.sqlQueryInput)
         IN IF saved.threw THEN showError(saved.page, saved.msg)
            ELSE hideLoading(saved.page)

\* The execute form's handler from the point where fetch settles with f.
\* The question and the SQL saved are the values of the two fields then.
executeResponded(pg, f) ==
    LET caught ==
            IF f.kind = "rejected" THEN showError(pg, f.msg)
            ELSE IF ~f.ok THEN showError(pg, "Failed to execute query")
            ELSE IF HasError(f.body) THEN showError(pg, f.body.error.v)
            ELSE LET saved == saveToHistory(
                                  hideError(displayQueryResults(pg, JsGet(f.body, "results"))),
                                  pg.userInput, pg.sqlQueryInput)
                 IN IF saved.threw THEN showError(saved.page, saved.msg)
                    ELSE saved.page
    IN hideLoading(caught)

(***************************************************************************)
(* Requests                                                                *)
(***************************************************************************)
UserInputs == { "show all customers" }
FileTypes == { "csv", "excel", "CSV", "" }
OtherForm == [other |-> "x"]

QueryForms == { [user_input |-> u] : u \in UserInputs } \cup { OtherForm }
ExecuteForms == { [sql_query |-> q] : q \in SqlTexts } \cup { OtherForm }
DownloadForms ==
    { [sql_query |-> q, file_type |-> f] : q \in SqlTexts, f \in FileTypes }
    \cup { [sql_query |-> SELECT_ONE], [file_type |-> "csv"] }

Request(endpoint, form) == [endpoint |-> endpoint, form |-> form]

\* The /download requests the threaded server handles at the same time.
Jobs == 1..NumJobs

\* The submissions the page can have in flight together, and one that is not.
Slots == 1..NumFetches
IdleFetch == [pc |-> "idle", endpoint |-> "", form |-> OtherForm]

\* A request thread that has not read its form yet.
IdleJob ==
    [pc |-> "idle", form |-> OtherForm, results |-> NoneV,
     temp_dir |-> "", file_path |-> "", resp |-> NoResponse]

\* The process has handled no request; table t holds any rows.
Init ==
    /\ tbl \in TableStates
    /\ req = Request("", OtherForm)
    /\ env = NoEnv
    /\ resp = NoResponse
    /\ log = <<>>
    /\ conns = 0
    /\ tmpdirs = <<>>
    /\ jobs = [j \in Jobs |-> IdleJob]
    /\ files = <<>>
    /\ page = InitialPage
    /\ fetches = [s \in Slots |-> IdleFetch]
    /\ settled = [endpoint |-> "", fetch |-> Unsent]
    /\ posted = 0

\* In each action r is what the handler returns and does for the inputs
\* drawn; a request is taken only while the connections and directories left
\* behind stay within the bounds.

\* POST /query
Query ==
    \E form \in QueryForms :
      \E rows \in (IF Has(form, "user_input") THEN Catalogs ELSE { <<>> }) :
        \E fault \in (IF Has(form, "user_input") THEN SchemaFaults(rows) ELSE { NoFault }),
           outcome \in (IF Has(form, "user_input") THEN ModelOutcomes
                        ELSE { Returns(NoneV) }) :
          \E r \in { x \in { query(form, rows, fault, outcome) } :
                        conns + x.leaked <= MaxLeaked } :
             /\ req' = Request("/query", form)
             /\ env' = Env(rows, fault, outcome, "none", "none")
             /\ resp' = r.resp
             /\ log' = r.calls
             /\ conns' = conns + r.leaked
             /\ UNCHANGED <<tbl, tmpdirs, jobs, files, page, fetches, settled, posted>>

\* GET /schema_info
SchemaInfo ==
    \E rows \in Catalogs :
      \E fault \in SchemaFaults(rows) :
        \E r \in { x \in { schema_info(rows, fault) } :
                      conns + x.leaked <= MaxLeaked } :
           /\ req' = Request("/schema_info", OtherForm)
           /\ env' = Env(rows, fault, Returns(NoneV), "none", "none")
           /\ resp' = r.resp
           /\ log' = r.calls
           /\ conns' = conns + r.leaked
           /\ UNCHANGED <<tbl, tmpdirs, jobs, files, page, fetches, settled, posted>>

\* POST /execute
Execute ==
    \E form \in ExecuteForms :
      \E fault \in (IF Has(form, "sql_query") THEN ExecFaults ELSE { "none" }) :
        \E r \in { x \in { execute(form, tbl, fault) } :
                      conns + x.leaked <= MaxLeaked } :
           /\ req' = Request("/execute", form)
           /\ env' = Env(<<>>, NoFault, Returns(NoneV), fault, "none")
           /\ resp' = r.resp
           /\ log' = r.calls
           /\ conns' = conns + r.leaked
           /\ tbl' = r.db
           /\ UNCHANGED <<tmpdirs, jobs, files, page, fetches, settled, posted>>

\* The export part of download() is reached when both fields are present and
\* execute_query returns no error.
ReachesExport(form, t_rows, fault) ==
    /\ Has(form, "sql_query") /\ Has(form, "file_type")
    /\ ~ExecRaises(form["sql_query"], t_rows, fault)

\* POST /download
Download ==
    \E form \in DownloadForms :
      \E fault \in (IF Has(form, "sql_query") /\ Has(form, "file_type")
                    THEN ExecFaults ELSE { "none" }) :
        \E xfault \in (IF ReachesExport(form, tbl, fault)
                       THEN ExportFaults ELSE { "none" }) :
          \E r \in { x \in { download(form, tbl, fault, xfault, Len(tmpdirs)) } :
                        /\ conns + x.leaked <= MaxLeaked
                        /\ Len(tmpdirs) + Len(x.dirs) <= MaxTmpDirs } :
             /\ req' = Request("/download", form)
             /\ env' = Env(<<>>, NoFault, Returns(NoneV), fault, xfault)
             /\ resp' = r.resp
             /\ log' = r.calls
             /\ conns' = conns + r.leaked
             /\ tmpdirs' = tmpdirs \o r.dirs
             /\ tbl' = r.db
             /\ UNCHANGED <<jobs, files, page, fetches, settled, posted>>

Next == Query \/ SchemaInfo \/ Execute \/ Download

\* Every request, in any order.
Spec == Init /\ [][Next]_vars

\* Every request, in any order, over a table that holds one row.
InitOneRow == Init /\ tbl = << <<PyInt(1), NoneV>> >>
SpecRequests == InitOneRow /\ [][Next]_vars

\* The requests that reach the schema fetch and the model call.
\* Table t plays no part in them and is left empty.
InitQuery == Init /\ tbl = <<>>
NextQuery == Query \/ SchemaInfo
SpecQuery == InitQuery /\ [][NextQuery]_vars

\* The requests that reach execute_query.
NextExec == Execute \/ Download
SpecExec == Init /\ [][NextExec]_vars

\* The requests whose statement changes table t, over a table that starts
\* empty and holds at most MaxTableRows rows.
MutatingExecuteForms == { [sql_query |-> q] : q \in MutatingTexts }
MutatingDownloadForms ==
    { [sql_query |-> q, file_type |-> f] : q \in MutatingTexts, f \in { "csv", "excel" } }

ExecuteMutating ==
    \E form \in MutatingExecuteForms :
      \E fault \in ExecFaults :
        \E r \in { x \in { execute(form, tbl, fault) } :
                      /\ conns + x.leaked <= MaxLeaked
                      /\ Len(x.db) <= MaxTableRows } :
           /\ req' = Request("/execute", form)
           /\ env' = Env(<<>>, NoFault, Returns(NoneV), fault, "none")
           /\ resp' = r.resp
           /\ log' = r.calls
           /\ conns' = conns + r.leaked
           /\ tbl' = r.db
           /\ UNCHANGED <<tmpdirs, jobs, files, page, fetches, settled, posted>>

DownloadMutating ==
    \E form \in MutatingDownloadForms :
      \E fault \in ExecFaults :
        \E xfault \in (IF ReachesExport(form, tbl, fault)
                       THEN ExportFaults ELSE { "none" }) :
          \E r \in { x \in { download(form, tbl, fault, xfault, Len(tmpdirs)) } :
                        /\ conns + x.leaked <= MaxLeaked
                        /\ Len(tmpdirs) + Len(x.dirs) <= MaxTmpDirs
                        /\ Len(x.db) <= MaxTableRows } :
             /\ req' = Request("/download", form)
             /\ env' = Env(<<>>, NoFault, Returns(NoneV), fault, xfault)
             /\ resp' = r.resp
             /\ log' = r.calls
             /\ conns' = conns + r.leaked
             /\ tmpdirs' = tmpdirs \o r.dirs
             /\ tbl' = r.db
             /\ UNCHANGED <<jobs, files, page, fetches, settled, posted>>

InitEmptyTable == Init /\ tbl = <<>>
NextMutating == Execute \/ Download \/ ExecuteMutating \/ DownloadMutating
SpecMutating == InitEmptyTable /\ [][NextMutating]_vars

(***************************************************************************)
(* download() line by line, for requests handled by concurrent threads.    *)
(* Each thread has its own locals (form, results, temp_dir, file_path);    *)
(* the database, the connections and the file system are shared.           *)
(***************************************************************************)

\* The forms of the concurrent requests.
ConcurrentForms ==
    { [sql_query |-> q, file_type |-> f] :
        q \in { SELECT_ONE, SELECT_T, SELEKT }, f \in { "csv", "excel" } }
    \cup { [sql_query |-> SELECT_ONE] }

\* The thread ends with response r.
Finish(j, r) == [jobs EXCEPT ![j].pc = "done", ![j].resp = r]

\* sql_query = request.form['sql_query']; file_type = request.form['file_type']
DlReadForm(j) ==
    /\ jobs[j].pc = "idle"
    /\ \E form \in ConcurrentForms :
          jobs' = IF Has(form, "sql_query") /\ Has(form, "file_type")
                  THEN [jobs EXCEPT ![j].pc = "execute", ![j].form = form]
                  ELSE [Finish(j, BadRequest("file_type")) EXCEPT ![j].form = form]
    /\ UNCHANGED <<tbl, req, env, resp, log, conns, tmpdirs, files, page, fetches, settled, posted>>

\* results, error = execute_query(sql_query); if error: return jsonify(...)
DlExecute(j) ==
    /\ jobs[j].pc = "execute"
    /\ \E fault \in ExecFaults :
          \E e \in { execute_query(jobs[j].form["sql_query"], tbl, fault) } :
             /\ jobs' = IF Truthy(e.error)
                        THEN Finish(j, jsonify([error |-> e.error]))
                        ELSE [jobs EXCEPT ![j].pc = "mkdtemp", ![j].results = e.results]
             /\ conns' = conns + e.leaked
             /\ tbl' = e.db
    /\ UNCHANGED <<req, env, resp, log, tmpdirs, files, page, fetches, settled, posted>>

\* temp_dir = tempfile.mkdtemp()
DlMkdtemp(j) ==
    /\ jobs[j].pc = "mkdtemp"
    /\ \/ /\ jobs' = [jobs EXCEPT ![j].pc = "write",
                                   ![j].temp_dir = mkdtemp(Len(tmpdirs))]
          /\ tmpdirs' = Append(tmpdirs, mkdtemp(Len(tmpdirs)))
       \/ /\ jobs' = Finish(j, ExportFailure("No space left on device"))
          /\ UNCHANGED tmpdirs
    /\ UNCHANGED <<tbl, req, env, resp, log, conns, files, page, fetches, settled, posted>>

\* file_path = os.path.join(temp_dir, ...); df.to_csv / df.to_excel
DlWrite(j) ==
    /\ jobs[j].pc = "write"
    /\ LET x == ExportKind(jobs[j].form["file_type"], ExportFrame(jobs[j].results))
           file_path == jobs[j].temp_dir \o "/" \o x.filename
       IN \/ /\ jobs' = [jobs EXCEPT ![j].pc = "send", ![j].file_path = file_path]
             /\ files' = DictSet(files, file_path, [content |-> x.content, by |-> j])
          \/ /\ jobs' = Finish(j, ExportFailure("No space left on device"))
             /\ UNCHANGED files
    /\ UNCHANGED <<tbl, req, env, resp, log, conns, tmpdirs, page, fetches, settled, posted>>

\* return send_file(file_path, ...): the response carries what the file at
\* file_path holds when it is sent.
DlSend(j) ==
    /\ jobs[j].pc = "send"
    /\ LET x == ExportKind(jobs[j].form["file_type"], ExportFrame(jobs[j].results))
       IN \/ jobs' = Finish(j, send_file(jobs[j].file_path, x.mimetype, x.filename,
                                         DictGet(files, jobs[j].file_path).content))
          \/ jobs' = Finish(j, ExportFailure("send_file failed"))
    /\ UNCHANGED <<tbl, req, env, resp, log, conns, tmpdirs, files, page, fetches, settled, posted>>

NextDownloads ==
    \E j \in Jobs :
        DlReadForm(j) \/ DlExecute(j) \/ DlMkdtemp(j) \/ DlWrite(j) \/ DlSend(j)

\* /download requests whose steps interleave in any order, one after the
\* other included, over a table that holds one row.
SpecDownloads == InitOneRow /\ [][NextDownloads]_vars

(***************************************************************************)
(* The page's handlers.  A submission runs to its await of fetch, and from *)
(* there when fetch settles; submissions made before an earlier one has    *)
(* settled are in flight together.                                         *)
(***************************************************************************)
\* The answers of the model service and the steps of execute_query that the
\* page's requests meet.
PageAnswers == { Returns(PyStr(PADDED_ANSWER)), Returns(NoneV), Raises("429 quota exceeded") }
PageExecFaults == { "none", "connect" }
SERVER_ERROR == "Internal Server Error"
MALFORMED == [results |-> [columns |-> << "x" >>]]

\* What the fetch of a submission can settle with: no connection, a status
\* that is not OK, what the handler of the endpoint answers, and for
\* /execute a 200 body whose results lack data.
QueryFetches(form) ==
    { Rejected(FAILED_TO_FETCH), Responded(Unhandled(SERVER_ERROR)) }
    \cup { Responded(query(form, <<>>, NoFault, o).resp) : o \in PageAnswers }
ExecuteFetches(form, t_rows) ==
    { Rejected(FAILED_TO_FETCH), Responded(Unhandled(SERVER_ERROR)),
      Responded(jsonify(MALFORMED)) }
    \cup { Responded(execute(form, t_rows, fault).resp) : fault \in PageExecFaults }

server == <<tbl, req, env, resp, log, conns, tmpdirs, jobs, files>>

\* The user types q into the question box.
Type(q) ==
    /\ q # page.userInput
    /\ page' = [page EXCEPT !.userInput = q]
    /\ UNCHANGED <<fetches, settled, posted, server>>

\* The query form is submitted, which the browser allows once the required
\* question box is not empty: a blank question gets a toast and no request;
\* any other shows the indicator and posts the form to /query.  The page
\* posts at most the number of requests given.
SubmitQuery(s, most) ==
    /\ posted < most
    /\ fetches[s].pc = "idle"
    /\ page.userInput # ""
    /\ IF trim(page.userInput) = ""
       THEN /\ settled' = [endpoint |-> "query", fetch |-> Unsent]
            /\ UNCHANGED <<page, fetches, posted>>
       ELSE /\ page' = showLoading(page)
            /\ fetches' = [fetches EXCEPT ![s] =
                              [pc |-> "awaiting", endpoint |-> "query",
                               form |-> [user_input |-> page.userInput]]]
            /\ posted' = posted + 1
            /\ UNCHANGED settled
    /\ UNCHANGED server

\* The execute form, which is inside the SQL section, is submitted: the
\* indicator is shown and the form posted to /execute.
SubmitExecute(s, most) ==
    /\ posted < most
    /\ fetches[s].pc = "idle"
    /\ page.sqlShown
    /\ page' = showLoading(page)
    /\ fetches' = [fetches EXCEPT ![s] =
                      [pc |-> "awaiting", endpoint |-> "execute",
                       form |-> [sql_query |-> page.sqlQueryInput]]]
    /\ posted' = posted + 1
    /\ UNCHANGED <<settled, server>>

\* The fetch of submission s settles and its handler runs to its end.
Settle(s) ==
    /\ fetches[s].pc = "awaiting"
    /\ \E f \in (IF fetches[s].endpoint = "query"
                  THEN QueryFetches(fetches[s].form)
                  ELSE ExecuteFetches(fetches[s].form, tbl)) :
          /\ page' = IF fetches[s].endpoint = "query"
                     THEN queryResponded(page, f)
                     ELSE executeResponded(page, f)
          /\ settled' = [endpoint |-> fetches[s].endpoint, fetch |-> f]
    /\ fetches' = [fetches EXCEPT ![s] = IdleFetch]
    /\ UNCHANGED <<posted, server>>

\* A click on item i of the history puts its question and SQL back.
HistoryClick(i) ==
    /\ i \in 1..Len(page.history)
    /\ page' = displaySqlQuery([page EXCEPT !.userInput = page.history[i].query],
                               page.history[i].sql)
    /\ page' # page
    /\ UNCHANGED <<fetches, settled, posted, server>>

\* One submission at a time, with any question typed, until the page has
\* posted MaxPosted requests.
NextPage ==
    \/ \E q \in Questions : Type(q)
    \/ SubmitQuery(1, MaxPosted)
    \/ SubmitExecute(1, MaxPosted)
    \/ Settle(1)
    \/ \E i \in 1..MaxPosted : HistoryClick(i)
SpecPage == InitOneRow /\ [][NextPage]_vars

\* Submissions in flight together, the question blank or not, until the
\* page has posted MaxPostedTogether requests.
NextLoading ==
    \/ \E q \in { BLANK, PLAIN_QUESTION } : Type(q)
    \/ \E s \in Slots :
          \/ SubmitQuery(s, MaxPostedTogether)
          \/ SubmitExecute(s, MaxPostedTogether)
          \/ Settle(s)
SpecLoading == InitOneRow /\ [][NextLoading]_vars

\* Every fetch settles: the server answers or the browser gives the request
\* up, and the handler then runs on.
LiveLoading == SpecLoading /\ \A s \in Slots : WF_vars(Settle(s))

(***************************************************************************)
(* Properties.                                                             *)
(***************************************************************************)
\* The request handled last reached the handler's body with its fields.
Handled(endpoint, fields) ==
    req.endpoint = endpoint /\ \A f \in fields : Has(req.form, f)

IsJson(keys) == resp.kind = "json" /\ DOMAIN resp.body = keys
IsText(x) == x.t = "str"
ModelFailed == env.outcome.kind = "raise"
SchemaFetchFailed == env.sfault.at # "none"

\* C1: the response to a POST /query that carries user_input holds exactly one
\* of the keys sql_query and error, and the one it holds is a string, whatever
\* the schema fetch and the model call did.
C1_QueryTaggedUnion ==
    Handled("/query", {"user_input"}) =>
        \/ IsJson({"sql_query"}) /\ IsText(resp.body.sql_query)
        \/ IsJson({"error"}) /\ IsText(resp.body.error)

\* C2: when the model call raises, generate_sql returns no SQL and a non-empty
\* error message, and /query answers with a JSON object holding only the error
\* key; the exception does not leave the handler.
C2_ModelFailureIsError ==
    (Handled("/query", {"user_input"}) /\ ModelFailed) =>
        LET g == generate_sql(req.form["user_input"], env.rows, env.sfault, env.outcome)
        IN /\ g.sql = NoneV
           /\ IsText(g.error) /\ g.error.v # ""
           /\ IsJson({"error"})
           /\ resp.body.error = g.error
           /\ resp.status = 200

\* C2's case: the model call raised an exception whose message is empty.
C2_Witness ==
    /\ Handled("/query", {"user_input"})
    /\ ModelFailed /\ env.outcome.msg = ""
    /\ IsJson({"error"})

\* C3: when get_table_schemas fails at any step (connecting, querying,
\* iterating the rows, closing) its caller gets the empty mapping, not the
\* rows grouped before the failure, and no exception: /schema_info lists no
\* table and /query sends a prompt with an empty schema block.
C3_SchemaFailureIsEmpty ==
    SchemaFetchFailed =>
        /\ Handled("/schema_info", {}) =>
               IsJson({"database", "tables"}) /\ resp.body.tables = <<>>
        /\ Handled("/query", {"user_input"}) =>
               /\ resp.kind = "json"
               /\ log[Len(log)] = Ev("model", Prompt("", req.form["user_input"]))

\* C3's case: the loop failed on the second row, with the first row grouped.
C3_Witness ==
    /\ Handled("/schema_info", {})
    /\ env.sfault.at = "row" /\ env.sfault.i = 2
    /\ SchemaLocal(env.rows, env.sfault) # <<>>
    /\ resp.body.tables = <<>>

\* execute_query failed in the request handled last: a call raised, the
\* statement was refused, or the statement returned no result set.
ExecutionFailed ==
    env.efault # "none" \/ DbRun(req.form["sql_query"], tbl).kind # "rows"

\* C4: when execute_query fails, /execute answers with a JSON object holding
\* only a non-empty error; no response holds both results and error, and a
\* result that is returned holds every row of the result set.
C4_ExecuteFailureIsError ==
    Handled("/execute", {"sql_query"}) =>
        /\ resp.kind = "json"
        /\ ExecutionFailed =>
               IsJson({"error"}) /\ IsText(resp.body.error) /\ resp.body.error.v # ""
        /\ ~({"results", "error"} \subseteq DOMAIN resp.body)
        /\ "results" \in DOMAIN resp.body =>
               /\ ~ExecutionFailed
               /\ Len(resp.body.results.data) = Len(DbRun(req.form["sql_query"], tbl).rows)

\* C4's case: the statement ran and returned no result set.
C4_Witness ==
    /\ Handled("/execute", {"sql_query"})
    /\ req.form["sql_query"] = INSERT_T /\ env.efault = "none"
    /\ IsJson({"error"})

\* /execute answered with a result.
ExecuteSucceeded ==
    Handled("/execute", {"sql_query"}) /\ IsJson({"results"})

\* The value a mapping built from a row gives a column name: the row's value
\* in the last column of that name.
LastOf(columns, row, name) ==
    row[CHOOSE j \in 1..Len(columns) :
            columns[j] = name /\ \A k \in (j + 1)..Len(columns) : columns[k] # name]

\* The result holds the result set: the column names in order and one mapping
\* per row, in order, from each column name to the row's value.
HoldsResultSet(columns, records, rs) ==
    /\ columns = rs.columns
    /\ Len(records) = Len(rs.rows)
    /\ \A i \in 1..Len(records) :
          /\ \A j \in 1..Len(rs.columns) : DictHas(records[i], rs.columns[j])
          /\ \A j \in 1..Len(records[i]) :
                /\ \E k \in 1..Len(rs.columns) : rs.columns[k] = records[i][j][1]
                /\ records[i][j][2] = LastOf(rs.columns, rs.rows[i], records[i][j][1])

DownloadSucceeded ==
    Handled("/download", {"sql_query", "file_type"}) /\ resp.kind = "file"

\* The TabularResult execute_query returns for the request's sql_query.
ResultOfRequest == execute_query(req.form["sql_query"], tbl, "none").results

\* C6: the CSV written by /download has a header equal to the result's
\* columns, one line per result row with the row's values, and an empty cell
\* for a null, for every result including one with no rows.
C6_CsvRoundTrip ==
    (DownloadSucceeded /\ req.form["file_type"] = "csv") =>
        LET csv == resp.body.content
            res == ResultOfRequest
        IN /\ csv.header = res.columns
           /\ Len(csv.lines) = Len(res.data)
           /\ \A i \in 1..Len(csv.lines) :
                 /\ Len(csv.lines[i]) = Len(res.columns)
                 /\ \A j \in 1..Len(csv.lines[i]) :
                       csv.lines[i][j] =
                           CsvCell(DictGet(res.data[i], res.columns[j]))

\* C7: the table /download serializes has the columns and the row values of
\* the result /execute returns for the same sql_query on the same database,
\* for every result including one with no rows.
C7_DownloadMatchesExecute ==
    DownloadSucceeded =>
        LET shown == execute([sql_query |-> req.form["sql_query"]], tbl, "none").resp.body.results
            sent == resp.body.content
        IN /\ sent.header = shown.columns
           /\ Len(sent.lines) = Len(shown.data)
           /\ \A i \in 1..Len(sent.lines) :
                 \A j \in 1..Len(sent.header) :
                     sent.lines[i][j] = CsvCell(DictGet(shown.data[i], sent.header[j]))

\* C8: a /download that gets past execute_query and whose export does not
\* fail answers with a file, whatever file_type is; "csv" gives
\* query_results.csv, text/csv and a CSV file, any other value gives
\* query_results.xlsx, the spreadsheet MIME type and a workbook; the file sent
\* is the file of that name in the request's directory.
C8_FileTypeDecidesExport ==
    Handled("/download", {"sql_query", "file_type"}) =>
        /\ (~ExecutionFailed /\ env.xfault = "none") => resp.kind = "file"
        /\ resp.kind = "file" =>
               LET b == resp.body
               IN /\ b.path = tmpdirs[Len(tmpdirs)] \o "/" \o b.filename
                  /\ IF req.form["file_type"] = "csv"
                     THEN /\ b.filename = "query_results.csv"
                          /\ b.mimetype = CSV_MIME
                          /\ b.content.format = "csv"
                     ELSE /\ b.filename = "query_results.xlsx"
                          /\ b.mimetype = XLSX_MIME
                          /\ b.content.format = "xlsx"

\* C8's case: a file_type that differs from "csv" only in case.
C8_Witness ==
    /\ DownloadSucceeded
    /\ req.form["file_type"] = "CSV"
    /\ resp.body.filename = "query_results.xlsx"

\* C9: no handler lets a failure of a component it calls escape: a request
\* that carries its fields is answered with a JSON body or a file, never with
\* an unhandled exception.
C9_NoUnhandledFailure ==
    resp.kind # "unhandled"

\* C10: GET /schema_info answers with the database name and a tables list,
\* never with an error: the list is empty when the schema fetch fails, and
\* holds one {name, columns} entry per table of the catalog when it succeeds.
C10_SchemaInfoNeverErrors ==
    Handled("/schema_info", {}) =>
        /\ IsJson({"database", "tables"})
        /\ resp.body.database = PG_DATABASE
        /\ SchemaFetchFailed => resp.body.tables = <<>>
        /\ ~SchemaFetchFailed =>
               LET tables == resp.body.tables
                   names == { env.rows[i][1] : i \in 1..Len(env.rows) }
               IN /\ Len(tables) = Cardinality(names)
                  /\ { tables[i].name : i \in 1..Len(tables) } = names
                  /\ \A i \in 1..Len(tables) :
                        /\ DOMAIN tables[i] = {"name", "columns"}
                        /\ Len(tables[i].columns) =
                               Cardinality({ k \in 1..Len(env.rows) :
                                               env.rows[k][1] = tables[i].name })

\* C10's case: the catalog has tables and the schema fetch failed.
C10_Witness ==
    /\ Handled("/schema_info", {})
    /\ env.rows # <<>> /\ env.sfault.at = "execute"
    /\ resp.body.tables = <<>>

\* The tables of the rows in order of first occurrence.
TablesInOrder(rows) ==
    LET first == SelectSeq([i \in 1..Len(rows) |-> i],
                           LAMBDA i : \A j \in 1..(i - 1) : rows[j][1] # rows[i][1])
    IN [n \in 1..Len(first) |-> rows[first[n]][1]]

\* The "column (type)" descriptors of the rows of one table, in row order.
DescriptorsOf(rows, table) ==
    LET own == SelectSeq(rows, LAMBDA r : r[1] = table)
    IN [n \in 1..Len(own) |-> own[n][2] \o " (" \o own[n][3] \o ")"]

\* C11: the mapping get_table_schemas returns has the tables of the catalog
\* rows as keys, in order of first occurrence, and for each table the
\* "column (type)" descriptors of its rows in catalog order, also when rows of
\* different tables are interleaved; /schema_info lists them in that order.
C11_GroupingKeepsOrder ==
    (Handled("/schema_info", {}) /\ ~SchemaFetchFailed) =>
        LET schema == get_table_schemas(env.rows, env.sfault).schema
            tables == TablesInOrder(env.rows)
        IN /\ DictKeys(schema) = tables
           /\ \A i \in 1..Len(schema) :
                 schema[i][2] = DescriptorsOf(env.rows, tables[i])
           /\ Len(resp.body.tables) = Len(tables)
           /\ \A i \in 1..Len(tables) :
                 resp.body.tables[i] =
                     [name |-> tables[i], columns |-> DescriptorsOf(env.rows, tables[i])]

\* C11's case: a row of another table lies between two rows of one table.
C11_Witness ==
    /\ Handled("/schema_info", {}) /\ ~SchemaFetchFailed
    /\ Len(env.rows) = 3
    /\ env.rows[1][1] = env.rows[3][1] /\ env.rows[2][1] # env.rows[1][1]
    /\ Len(resp.body.tables) = 2

(***************************************************************************)
(* C12: a form field that is absent                                        *)
(***************************************************************************)

\* The fields each endpoint reads from the form.
RequiredFields(endpoint) ==
    CASE endpoint = "/query"    -> { "user_input" }
      [] endpoint = "/execute"  -> { "sql_query" }
      [] endpoint = "/download" -> { "sql_query", "file_type" }
      [] OTHER                  -> {}

\* The request being answered lacks a field its endpoint reads.
MissingField == \E f \in RequiredFields(req.endpoint) : ~Has(req.form, f)

\* C12: a request that lacks a field its endpoint reads (user_input for
\* /query, sql_query for /execute, sql_query or file_type for /download) is
\* answered by the framework's bad-request failure and has no side effect: no
\* schema fetch, no model call, no connection, no statement, no directory,
\* and the table and the process's resources are as they were.
C12_MissingFieldNoSideEffect ==
    [][ MissingField' =>
          /\ resp'.kind = "bad_request" /\ resp'.status = 400
          /\ log' = <<>>
          /\ conns' = conns /\ tmpdirs' = tmpdirs /\ tbl' = tbl ]_vars

\* A /download that carries a statement but no file_type is refused, after an
\* earlier request had made a directory.
C12_Witness ==
    /\ req.endpoint = "/download"
    /\ Has(req.form, "sql_query") /\ ~Has(req.form, "file_type")
    /\ resp.kind = "bad_request" /\ log = <<>>
    /\ tmpdirs # <<>>

(***************************************************************************)
(* C13: the error string                                                   *)
(***************************************************************************)

\* The response is a JSON object holding error.
ErrorReported == resp.kind = "json" /\ "error" \in DOMAIN resp.body

\* str(e) of the exception behind the error of the request being answered.
UnderlyingMessage ==
    IF req.endpoint = "/query" THEN env.outcome.msg
    ELSE ExecException(req.form["sql_query"], tbl, env.efault)

\* C13 as stated: the error string of /query, /execute and /download equals
\* the message of the exception that was raised, nothing added or removed.
C13_ErrorIsMessage ==
    (req.endpoint \in {"/query", "/execute", "/download"} /\ ErrorReported) =>
        resp.body.error = PyStr(UnderlyingMessage)

\* C13 amended: the error string is a fixed prefix, "Error generating SQL: "
\* for /query and "Error executing query: " for /execute and /download,
\* followed by the message of the exception that was raised, unchanged.
C13_ErrorIsPrefixedMessage ==
    (req.endpoint \in {"/query", "/execute", "/download"} /\ ErrorReported) =>
        /\ req.endpoint = "/query" =>
              resp.body.error = PyStr("Error generating SQL: " \o UnderlyingMessage)
        /\ req.endpoint \in {"/execute", "/download"} =>
              resp.body.error = PyStr("Error executing query: " \o UnderlyingMessage)

\* The database refuses a statement sent by /download and its message comes
\* back behind the prefix.
C13_Witness ==
    /\ req.endpoint = "/download" /\ ErrorReported
    /\ env.efault = "none"
    /\ UnderlyingMessage # ""
    /\ resp.body.error.v = "Error executing query: " \o UnderlyingMessage

(***************************************************************************)
(* C14: requests are stateless                                             *)
(***************************************************************************)

\* What the client receives: a file response carries the attachment's name,
\* type and content, not the server's path.
Visible(r) ==
    IF r.kind = "file"
    THEN [status |-> r.status, kind |-> r.kind,
          body |-> [mimetype |-> r.body.mimetype, filename |-> r.body.filename,
                    content |-> r.body.content]]
    ELSE r

\* The response the request being answered gets from a process that has
\* handled nothing before: no directory made, no connection left behind.
FirstResponse ==
    CASE req.endpoint = "/query" ->
            query(req.form, env.rows, env.sfault, env.outcome).resp
      [] req.endpoint = "/schema_info" ->
            schema_info(env.rows, env.sfault).resp
      [] req.endpoint = "/execute" ->
            execute(req.form, tbl, env.efault).resp
      [] req.endpoint = "/download" ->
            download(req.form, tbl, env.efault, env.xfault, 0).resp
      [] OTHER -> NoResponse

HasWritten(j) == jobs[j].file_path # ""

\* The content thread j's own result serializes to.
OwnExport(j) ==
    ExportKind(jobs[j].form["file_type"], ExportFrame(jobs[j].results)).content

\* C15: two /download requests, one after the other or interleaved, with the
\* same file_type or not, write to different paths; the file at a request's
\* path is the one that request wrote, and the file a request sends is its
\* own export.
C15_DownloadsWriteApart ==
    /\ \A i, j \in Jobs :
          (i # j /\ HasWritten(i) /\ HasWritten(j)) =>
              jobs[i].file_path # jobs[j].file_path
    /\ \A j \in Jobs :
          HasWritten(j) =>
              /\ DictHas(files, jobs[j].file_path)
              /\ DictGet(files, jobs[j].file_path) = [content |-> OwnExport(j), by |-> j]
    /\ \A j \in Jobs :
          jobs[j].resp.kind = "file" =>
              /\ jobs[j].resp.body.path = jobs[j].file_path
              /\ jobs[j].resp.body.content = OwnExport(j)

\* Two requests for the same file type and different results, interleaved:
\* the second made its directory, wrote and was answered while the first,
\* whose directory is the older one, had written and not yet sent.
C15_Witness ==
    /\ jobs[1].pc = "send" /\ jobs[1].temp_dir = "/tmp/tmp1"
    /\ jobs[2].pc = "done" /\ jobs[2].resp.kind = "file"
    /\ jobs[1].form["file_type"] = jobs[2].form["file_type"]
    /\ jobs[1].form["sql_query"] # jobs[2].form["sql_query"]

(***************************************************************************)
(* C16, C17: connections are closed                                        *)
(***************************************************************************)

\* The request being answered called get_table_schemas.
FetchedSchema == req.endpoint = "/schema_info" \/ Handled("/query", {"user_input"})

\* The request being answered called execute_query.
RanStatement ==
    Handled("/execute", {"sql_query"}) \/ Handled("/download", {"sql_query", "file_type"})

\* The request called close() on its connection.
CalledClose == \E i \in 1..Len(log) : log[i] = Ev("close", "")

\* C16: a connection get_table_schemas opened is closed before it returns,
\* also when the catalog query or the row loop fails and the empty mapping
\* is returned.
C16_SchemaConnectionClosed ==
    (FetchedSchema /\ env.sfault.at # "connect") => CalledClose

\* C17: a connection execute_query opened is closed before the request
\* completes, also when the statement fails and an error is returned; after
\* any sequence of requests no connection of a finished request is open.
C17_ExecuteConnectionClosed ==
    /\ (RanStatement /\ env.efault # "connect") => CalledClose
    /\ conns = 0

(***************************************************************************)
(* C18: /query without a schema                                            *)
(***************************************************************************)

\* The prompt whose schema block is empty, for the request's question.
SchemalessPrompt ==
    "\n            Based on the following database schema:\n            "
    \o "\n            Convert this natural language query into an SQL query for a PostgreSQL database: "
    \o req.form["user_input"]
    \o "\n            Return as plaintext, query only, with no markdown formatting.\n            "

\* C18: when the schema fetch fails or the catalog lists no table, /query
\* still calls the model, with the prompt whose schema block is empty and
\* which holds the question unchanged, and the response is the one the
\* model's outcome alone decides: the error of its exception, or its text.
C18_SchemalessQueryProceeds ==
    (Handled("/query", {"user_input"}) /\ (SchemaFetchFailed \/ env.rows = <<>>)) =>
        /\ log # <<>> /\ log[Len(log)] = Ev("model", SchemalessPrompt)
        /\ \A i \in 1..(Len(log) - 1) : log[i].op # "model"
        /\ resp = IF ModelFailed
                  THEN jsonify([error |-> PyStr("Error generating SQL: " \o env.outcome.msg)])
                  ELSE jsonify([sql_query |-> env.outcome.text])

\* The row loop failed at the second of three rows and the model, asked
\* with the schema-less prompt, answered with a statement.
C18_Witness ==
    /\ Handled("/query", {"user_input"})
    /\ env.sfault = [at |-> "row", i |-> 2] /\ Len(env.rows) = 3
    /\ env.outcome.kind = "ok"
    /\ IsJson({"sql_query"}) /\ resp.body.sql_query = PyStr("SELECT 1 AS x")

(***************************************************************************)
(* C19: the statement is sent as given                                     *)
(***************************************************************************)

\* The statements the request sent to the database, in order.
StatementsSent ==
    LET at == SelectSeq([i \in 1..Len(log) |-> i], LAMBDA i : log[i].op = "sql")
    IN [n \in 1..Len(at) |-> log[at[n]].arg]

\* C19: once connected, /execute and /download send the database one
\* statement, the sql_query field as it arrived: surrounding blanks kept,
\* and statements that are not SELECTs or not SQL sent like any other.
C19_StatementSentVerbatim ==
    RanStatement =>
        StatementsSent = IF env.efault = "connect" THEN <<>>
                         ELSE << req.form["sql_query"] >>

\* An INSERT sent to /execute reached the database.
C19_Witness ==
    /\ Handled("/execute", {"sql_query"})
    /\ req.form["sql_query"] = INSERT_T
    /\ StatementsSent = << INSERT_T >>

(***************************************************************************)
(* C20: the text of a model call that returned                             *)
(***************************************************************************)

\* C20: when the model call returns without raising, the response to /query
\* holds sql_query and it is a non-empty string.
C20_ReturnedTextIsNonEmpty ==
    (Handled("/query", {"user_input"}) /\ ~ModelFailed) =>
        /\ IsJson({"sql_query"})
        /\ IsText(resp.body.sql_query) /\ resp.body.sql_query.v # ""

(***************************************************************************)
(* C21: one attempt per request                                            *)
(***************************************************************************)

\* The number of calls of kind op the request made.
CountOp(op) == Cardinality({ i \in 1..Len(log) : log[i].op = op })

\* A /query makes one schema fetch, first, and one model call, last.
OneFetchThenOneModelCall ==
    Handled("/query", {"user_input"}) =>
        /\ CountOp("connect") = 1 /\ log[1].op = "connect"
        /\ CountOp("sql") <= 1
        /\ CountOp("model") = 1 /\ log[Len(log)].op = "model"

\* C21 as stated: a /query makes one schema fetch and then one model call,
\* and every /execute and /download runs the submitted statement exactly once.
C21_StatementRunExactlyOnce ==
    /\ OneFetchThenOneModelCall
    /\ RanStatement => (CountOp("connect") = 1 /\ StatementsSent = << req.form["sql_query"] >>)

\* C21 amended: a /query makes one schema fetch and then one model call,
\* neither repeated after a failure; every /execute and /download connects
\* once and runs the submitted statement once when the connection is made,
\* and not at all when it is not.
C21_OneAttemptPerRequest ==
    /\ OneFetchThenOneModelCall
    /\ RanStatement =>
          /\ CountOp("connect") = 1
          /\ StatementsSent = IF env.efault = "connect" THEN <<>>
                              ELSE << req.form["sql_query"] >>

\* An /execute whose connection was refused: one attempt to connect, not
\* repeated, and the statement never sent.
C21_Witness ==
    /\ Handled("/execute", {"sql_query"})
    /\ env.efault = "connect"
    /\ CountOp("connect") = 1 /\ StatementsSent = <<>>
    /\ ErrorReported

(***************************************************************************)
(* C22: a /download whose query fails                                      *)
(***************************************************************************)

\* The request being answered is a /download whose execute_query failed.
DownloadQueryFailed ==
    Handled("/download", {"sql_query", "file_type"}) /\ ExecutionFailed

\* C22: a /download whose query fails is answered with a JSON object holding
\* only error; it makes no directory and writes and sends no file, and the
\* directories on disk are those that were there before.
C22_FailedDownloadLeavesNoFile ==
    [][ DownloadQueryFailed' =>
          /\ resp'.kind = "json" /\ DOMAIN resp'.body = {"error"}
          /\ \A i \in 1..Len(log') : log'[i].op \notin {"mkdtemp", "write", "send"}
          /\ tmpdirs' = tmpdirs ]_vars

\* The database refused the statement of a /download that followed one
\* which had made a directory; that directory is still the only one.
C22_Witness ==
    /\ DownloadQueryFailed /\ env.efault = "none"
    /\ IsJson({"error"})
    /\ tmpdirs = << "/tmp/tmp1" >>

(***************************************************************************)
(* C23: one entry per column                                               *)
(***************************************************************************)

\* The set of elements of a sequence.
Range(q) == { q[i] : i \in 1..Len(q) }

\* C23: in every result execute_query returns, each row is a mapping whose
\* keys are the column names and which has as many entries as there are
\* columns, two columns of the same name included.
C23_RowHasEntryPerColumn ==
    ExecuteSucceeded =>
        \A i \in 1..Len(resp.body.results.data) :
            /\ Range(DictKeys(resp.body.results.data[i])) = Range(resp.body.results.columns)
            /\ Len(resp.body.results.data[i]) = Len(resp.body.results.columns)

(***************************************************************************)
(* C24: nothing is committed                                               *)
(***************************************************************************)

\* C24 as stated: the committed rows of table t, empty at the start, are the
\* same after any sequence of /execute and /download requests.
C24_CommittedStateUnchanged == tbl = <<>>

\* C24 amended: execute_query never commits; what a statement changes is
\* discarded with its connection, and a request leaves the committed rows of
\* t as they were, unless the submitted text itself commits.
C24_OnlyTheStatementCommits ==
    [][ (RanStatement' /\ req'.form["sql_query"] # INSERT_COMMIT) => tbl' = tbl ]_vars

\* An INSERT ... RETURNING was answered with the row it inserted, and the
\* table holds no row.
C24_Witness ==
    /\ ExecuteSucceeded /\ req.form["sql_query"] = INSERT_RETURNING
    /\ Len(resp.body.results.data) = 1
    /\ tbl = <<>>

(***************************************************************************)
(* C25: export directories are never removed                               *)
(***************************************************************************)

\* The request being answered is a /download that got past execute_query.
DownloadPastQuery ==
    Handled("/download", {"sql_query", "file_type"}) /\ ~ExecutionFailed

\* The directories in before are still there in after, in the same order.
StillThere(before, after) ==
    Len(before) <= Len(after) /\ SubSeq(after, 1, Len(before)) = before

FirstFive(q) == SubSeq(q, 1, IF Len(q) < 5 THEN Len(q) ELSE 5)

\* C26: the history never holds more than 5 items, and whenever it changes
\* the new item is first, the items it held follow in their order, and the
\* oldest of them is the one dropped when there were already five.
C26_HistoryNewestFirstAtMostFive ==
    [][ /\ Len(page'.history) <= 5
        /\ page'.history # page.history
           => page'.history = FirstFive(<< Head(page'.history) >> \o page.history)
      ]_vars

\* C27: the history never holds two items with the same question and SQL.
C27_NoPairTwice ==
    \A i, j \in 1..Len(page.history) :
        i # j => page.history[i] # page.history[j]

(***************************************************************************)
(* The error banner.                                                       *)
(***************************************************************************)
\* The fetch gave results the page can display: an OK response without an
\* error, whose results have columns and data.
YieldsResults(f) ==
    /\ f.kind = "response"
    /\ f.ok
    /\ ~HasError(f.body)
    /\ Displayable(JsGet(f.body, "results"))

\* This step ends an execute submission.
ExecuteSettles ==
    \E s \in Slots :
        /\ fetches[s].pc = "awaiting"
        /\ fetches[s].endpoint = "execute"
        /\ fetches'[s].pc = "idle"

\* C28: when an execute submission ends, the banner is visible exactly when
\* its fetch gave no displayable results, and in that case the history is
\* what it was.
C28_BannerIffNoResults ==
    [][ ExecuteSettles =>
            /\ page'.errorShown <=> ~YieldsResults(settled'.fetch)
            /\ ~YieldsResults(settled'.fetch) => page'.history = page.history
      ]_vars

(***************************************************************************)
(* The loading indicator.                                                  *)
(***************************************************************************)
\* This step is a query submission that found the question blank.
BlankSubmission ==
    /\ settled' # settled
    /\ settled'.fetch.kind = "unsent"

\* C29: every submission that has shown the indicator and awaits its fetch
\* comes to its end with the indicator hidden, whatever the fetch gives; a
\* query submission with a blank question starts no fetch and leaves the
\* indicator as it was.
C29_IndicatorHiddenAgain ==
    /\ \A s \in Slots :
           (fetches[s].pc = "awaiting") ~> (fetches[s].pc = "idle" /\ ~page.loading)
    /\ [][ BlankSubmission =>
               posted' = posted /\ fetches' = fetches /\ page'.loading = page.loading ]_vars
    /\ [][ \A s \in Slots :
               fetches[s].pc = "idle" /\ fetches'[s].pc = "awaiting" => page'.loading
         ]_vars

\* An execute submission whose fetch was rejected has ended: the banner is
\* shown and the indicator hidden.
C29_Witness ==
    /\ settled.endpoint = "execute"
    /\ settled.fetch.kind = "rejected"
    /\ \A s \in Slots : fetches[s].pc = "idle"
    /\ page.errorShown
    /\ ~page.loading
====
